---- MODULE Spec2Model ----
(***************************************************************************)
(* Message Storage Server (src/server/main.rs): the two request handlers   *)
(* store_message_handler and retrieve_messages_handler running as          *)
(* concurrent tasks over one contract session behind a tokio Mutex, and    *)
(* the remote ledger (node, pending pool, chain) they talk to.             *)
(*                                                                         *)
(* A handler is suspended at its .await points only.  pc[r] names the      *)
(* await a handler is suspended in:                                        *)
(*   "waiting"  data.lock().await                     (line 83 / 147)      *)
(*   "send"     write_message(..).send().await        (line 91)            *)
(*   "confirm"  pending_tx.interval(..).await         (line 98)            *)
(*   "call"     get_messages().call().await           (line 152)           *)
(* "idle" is a request not yet arrived, "done" a handler that returned.    *)
(*                                                                         *)
(* Before any handler runs, main sets the contract up (setup_contract),    *)
(* which also spawns the event listener task (subscribe_to_events); the    *)
(* listener works on its own clone of the contract, outside the Mutex.     *)
(***************************************************************************)
EXTENDS Integers, Sequences, FiniteSets, TLC

\* Number of HTTP requests that arrive during a run.
NumReq == 3

Reqs == 1..NumReq

\* Message texts a client may post (StoreMessageRequest.message).
Msgs == {"a", "b"}

\* No task: the value of holder while the Mutex is unlocked.
NoReq == 0

VARIABLES
    pc,             \* pc[r]: the await point request r is suspended at
    kind,           \* kind[r]: "write" (POST /api/store-message) or "read"
    msg,            \* msg[r]: message_to_store of a write request
    holder,         \* the task owning the MutexGuard app_state, or NoReq
    waiters,        \* FIFO queue of tasks suspended in data.lock().await
    txs,            \* the node's transactions, indexed by transaction hash
    chain,          \* hashes of the included transactions, in inclusion order
    pending_tx,     \* pending_tx[r]: hash returned by send() to request r
    sendResult,     \* sendResult[r]: what send().await resolved to
    confirmResult,  \* confirmResult[r]: what pending_tx.await resolved to
    callResult,     \* callResult[r]: what call().await resolved to
    resp,           \* resp[r]: the HttpResponse the handler returned
    calls,          \* the contract calls issued on the session, in order
    returnedBefore, \* returnedBefore[q]: requests answered before read q's call
    server,         \* where main is: "setup", "deployed", "serving", "exited"
    sessions,       \* how many contract sessions setup_contract has created
    listener,       \* where the listener task is (see ListenerStates)
    logged          \* what the listener task has logged, in order

\* The variables of main and of the listener task.
procVars == <<server, sessions, listener, logged>>

vars == <<pc, kind, msg, holder, waiters, txs, chain, pending_tx,
          sendResult, confirmResult, callResult, resp, calls, returnedBefore,
          server, sessions, listener, logged>>

-----------------------------------------------------------------------------
(* Responses *)

NoResponse ==
    [code |-> 0, status |-> "", message |-> "", detail |-> "",
     tx_hash |-> 0, messages |-> <<>>]

\* line 105
SuccessResponse(h) ==
    [NoResponse EXCEPT !.code = 200, !.status = "success", !.tx_hash = h]

\* lines 112-114
DroppedResponse ==
    [NoResponse EXCEPT !.code = 500, !.status = "error",
                       !.message = "Transaction dropped"]

\* line 122
ConfirmFailedResponse(e) ==
    [NoResponse EXCEPT !.code = 500, !.status = "error",
                       !.message = "Transaction confirmation failed: ",
                       !.detail = e]

\* Mutant of as_revert: every error answer of the node counts as a revert.
as_revert_or_refusal(e) == e \in {"revert", "rejected"}

\* e.as_revert(): Some only for a contract revert
as_revert(e) == e = "revert"

\* lines 133-138
SendErrorResponse(e) ==
    IF as_revert(e)
    THEN [NoResponse EXCEPT !.code = 400, !.status = "error",
                            !.message = "Contract execution failed: ",
                            !.detail = e]
    ELSE [NoResponse EXCEPT !.code = 500, !.status = "error",
                            !.message = "Failed to send transaction: ",
                            !.detail = e]

\* line 75
IndexResponse ==
    [NoResponse EXCEPT !.code = 200,
                       !.message = "Welcome to the Message Storage Server!"]

\* Mutant of MessagesResponse: only the first message is returned.
MessagesResponseFirstOnly(ms) ==
    [NoResponse EXCEPT !.code = 200,
                       !.messages = IF ms = <<>> THEN ms ELSE <<Head(ms)>>]

\* line 155
MessagesResponse(ms) ==
    [NoResponse EXCEPT !.code = 200, !.messages = ms]

\* lines 159-167
ReadErrorResponse(e) ==
    IF as_revert(e)
    THEN [NoResponse EXCEPT !.code = 500, !.status = "error",
                            !.message = "Contract execution failed during retrieval: ",
                            !.detail = e]
    ELSE [NoResponse EXCEPT !.code = 500, !.status = "error",
                            !.message = "Failed to retrieve messages: ",
                            !.detail = e]

-----------------------------------------------------------------------------
(* The ledger *)

\* Errors send().await can resolve to: the call reverted in the node's
\* pre-submission execution, the node refused the transaction for another
\* reason (an error response without revert data), the transport failed.
SendErrors == {"revert", "rejected", "transport"}

\* Errors get_messages().call().await can resolve to.
CallErrors == {"revert", "transport"}

RECURSIVE StoredFrom(_)
\* The contract's message array: the messages of the included transactions
\* whose execution succeeded, in inclusion order.
StoredFrom(hs) ==
    IF hs = <<>> THEN <<>>
    ELSE LET h == Head(hs)
         IN  (IF txs[h].ok THEN <<txs[h].msg>> ELSE <<>>) \o StoredFrom(Tail(hs))

\* What getMessages() returns in the current state.
GetMessages == StoredFrom(chain)

\* The signing identity of the session, the sender of every transaction.
Wallet == "wallet"

\* The MessageWritten events the contract has emitted since block 0, in
\* emission order: one per message stored.
Events ==
    [i \in 1..Len(GetMessages) |-> [message |-> GetMessages[i], sender |-> Wallet]]

-----------------------------------------------------------------------------
(* Initial state: the process has started, main is about to set up. *)

Init ==
    /\ pc = [r \in Reqs |-> "idle"]
    /\ kind = [r \in Reqs |-> "none"]
    /\ msg = [r \in Reqs |-> ""]
    /\ holder = NoReq
    /\ waiters = <<>>
    /\ txs = <<>>
    /\ chain = <<>>
    /\ pending_tx = [r \in Reqs |-> 0]
    /\ sendResult = [r \in Reqs |-> "none"]
    /\ confirmResult = [r \in Reqs |-> "none"]
    /\ callResult = [r \in Reqs |-> "none"]
    /\ resp = [r \in Reqs |-> NoResponse]
    /\ calls = <<>>
    /\ returnedBefore = [r \in Reqs |-> {}]
    /\ server = "setup"
    /\ sessions = 0
    /\ listener = "unspawned"
    /\ logged = <<>>

-----------------------------------------------------------------------------
(* main: setup, then the HTTP server *)

\* Mutant of Serving: routes are served whatever main has reached.
ServingUnconditionally == TRUE

\* HttpServer::run is reached (line 271): requests are routed to handlers.
Serving == server = "serving"

\* setup_contract returns Ok (lines 173-235, 242-243): the contract is
\* deployed, the session bound to it is created, and the listener task is
\* spawned on a clone of it (line 232, lines 43-44).
SetupOk ==
    /\ server = "setup"
    /\ server' = "deployed"
    /\ sessions' = sessions + 1
    /\ listener' = "starting"
    /\ UNCHANGED <<pc, kind, msg, holder, waiters, txs, chain, pending_tx,
                   sendResult, confirmResult, callResult, resp, calls,
                   returnedBefore, logged>>

\* setup_contract returns Err (a `?` of lines 184-224): main panics on
\* expect("Failed to setup contract") (line 243) and the process ends.
SetupFailed ==
    /\ server = "setup"
    /\ server' = "exited"
    /\ UNCHANGED <<pc, kind, msg, holder, waiters, txs, chain, pending_tx,
                   sendResult, confirmResult, callResult, resp, calls,
                   returnedBefore, sessions, listener, logged>>

\* The shared state is built and the server bound and run (lines 246-272).
ServerStart ==
    /\ server = "deployed"
    /\ server' = "serving"
    /\ UNCHANGED <<pc, kind, msg, holder, waiters, txs, chain, pending_tx,
                   sendResult, confirmResult, callResult, resp, calls,
                   returnedBefore, sessions, listener, logged>>

\* bind fails (line 270): main returns the error and the process ends.
ServerStartFailed ==
    /\ server = "deployed"
    /\ server' = "exited"
    /\ UNCHANGED <<pc, kind, msg, holder, waiters, txs, chain, pending_tx,
                   sendResult, confirmResult, callResult, resp, calls,
                   returnedBefore, sessions, listener, logged>>

-----------------------------------------------------------------------------
(* The Mutex and the first contract call *)

\* With the guard in hand the handler runs to its first contract call:
\* send() for a write (line 91), call() for a read (line 152).
FirstCall(r, k) ==
    /\ pc' = [pc EXCEPT ![r] = IF k = "write" THEN "send" ELSE "call"]
    /\ calls' = Append(calls, [req |-> r,
                               op |-> IF k = "write" THEN "submit" ELSE "read"])

\* Mutant of LockFree: the lock is taken without looking at its holder.
LockFreeUnchecked(r, k) ==
    /\ holder' = r
    /\ waiters' = waiters
    /\ FirstCall(r, k)

\* data.lock().await on an unlocked Mutex: the task becomes the holder.
LockFree(r, k) ==
    /\ holder = NoReq
    /\ holder' = r
    /\ waiters' = waiters
    /\ FirstCall(r, k)

\* data.lock().await on a locked Mutex: the task joins the FIFO queue.
LockBusy(r) ==
    /\ holder # NoReq
    /\ waiters' = Append(waiters, r)
    /\ pc' = [pc EXCEPT ![r] = "waiting"]
    /\ UNCHANGED <<holder, calls>>

\* Mutant of Unlock: the guard is kept past the return.
UnlockLeaked ==
    /\ holder' = holder
    /\ waiters' = waiters

\* Dropping the MutexGuard at the end of the handler: the Mutex is handed to
\* the longest waiting task, or unlocked when none waits.
Unlock ==
    /\ holder' = IF waiters = <<>> THEN NoReq ELSE Head(waiters)
    /\ waiters' = IF waiters = <<>> THEN <<>> ELSE Tail(waiters)

\* The handler returns response rs: the guard is dropped with the return.
Return(r, rs) ==
    /\ resp' = [resp EXCEPT ![r] = rs]
    /\ pc' = [pc EXCEPT ![r] = "done"]
    /\ Unlock

-----------------------------------------------------------------------------
(* Handlers *)

\* A request arrives and its handler runs to its first await, the lock.
Arrive(r) ==
    /\ Serving
    /\ pc[r] = "idle"
    /\ \E k \in {"write", "read"} :
         /\ kind' = [kind EXCEPT ![r] = k]
         /\ \E m \in (IF k = "write" THEN Msgs ELSE {""}) :
              msg' = [msg EXCEPT ![r] = m]
         /\ \/ LockFree(r, k)
            \/ LockBusy(r)
    /\ UNCHANGED <<txs, chain, pending_tx, sendResult, confirmResult, callResult,
                   resp, returnedBefore>>
    /\ UNCHANGED procVars

\* A task that was handed the Mutex is woken and goes on to its first call.
Wake(r) ==
    /\ pc[r] = "waiting"
    /\ holder = r
    /\ FirstCall(r, kind[r])
    /\ UNCHANGED <<kind, msg, holder, waiters, txs, chain, pending_tx,
                   sendResult, confirmResult, callResult, resp,
                   returnedBefore>>
    /\ UNCHANGED procVars

\* The node's record of a submitted transaction.
NewTx(r) == [req |-> r, msg |-> msg[r], st |-> "pending", ok |-> FALSE]

\* Mutant of SendAccepted: the guard is dropped before the confirmation wait.
SendAcceptedUnlocked(r) ==
    /\ pc[r] = "send"
    /\ txs' = Append(txs, NewTx(r))
    /\ pending_tx' = [pending_tx EXCEPT ![r] = Len(txs) + 1]
    /\ sendResult' = [sendResult EXCEPT ![r] = "accepted"]
    /\ pc' = [pc EXCEPT ![r] = "confirm"]
    /\ calls' = Append(calls, [req |-> r, op |-> "awaitConfirmation"])
    /\ Unlock
    /\ UNCHANGED <<kind, msg, chain, confirmResult, callResult, resp,
                   returnedBefore>>
    /\ UNCHANGED procVars

\* send().await resolves Ok(pending_tx): the node pooled the transaction;
\* the handler goes on to wait for its confirmation (lines 92-98).
SendAccepted(r) ==
    /\ pc[r] = "send"
    /\ txs' = Append(txs, NewTx(r))
    /\ pending_tx' = [pending_tx EXCEPT ![r] = Len(txs) + 1]
    /\ sendResult' = [sendResult EXCEPT ![r] = "accepted"]
    /\ pc' = [pc EXCEPT ![r] = "confirm"]
    /\ calls' = Append(calls, [req |-> r, op |-> "awaitConfirmation"])
    /\ UNCHANGED <<kind, msg, holder, waiters, chain, confirmResult,
                   callResult, resp, returnedBefore>>
    /\ UNCHANGED procVars

\* send().await resolves Err(e) (lines 126-139).  A transport failure can
\* strike after the node pooled the transaction (the answer is lost).
SendFailed(r) ==
    /\ pc[r] = "send"
    /\ \E e \in SendErrors :
         /\ sendResult' = [sendResult EXCEPT ![r] = e]
         /\ Return(r, SendErrorResponse(e))
         /\ \/ txs' = txs
            \/ e = "transport" /\ txs' = Append(txs, NewTx(r))
    /\ UNCHANGED <<kind, msg, chain, pending_tx, confirmResult, callResult,
                   calls, returnedBefore>>
    /\ UNCHANGED procVars

\* Mutant of ConfirmReceipt: success is answered without the inclusion.
ConfirmReceiptUnconfirmed(r) ==
    /\ pc[r] = "confirm"
    /\ txs[pending_tx[r]].st \in {"pending", "included"}
    /\ confirmResult' = [confirmResult EXCEPT ![r] = "receipt"]
    /\ Return(r, SuccessResponse(pending_tx[r]))
    /\ UNCHANGED <<kind, msg, txs, chain, pending_tx, sendResult, callResult,
                   calls, returnedBefore>>
    /\ UNCHANGED procVars

\* pending_tx.await resolves Ok(Some(receipt)) (lines 99-106).
ConfirmReceipt(r) ==
    /\ pc[r] = "confirm"
    /\ txs[pending_tx[r]].st = "included"
    /\ confirmResult' = [confirmResult EXCEPT ![r] = "receipt"]
    /\ Return(r, SuccessResponse(pending_tx[r]))
    /\ UNCHANGED <<kind, msg, txs, chain, pending_tx, sendResult, callResult,
                   calls, returnedBefore>>
    /\ UNCHANGED procVars

\* Mutant of ConfirmDropped: a dropped transaction is submitted again.
ConfirmDroppedResubmit(r) ==
    /\ pc[r] = "confirm"
    /\ txs[pending_tx[r]].st = "dropped"
    /\ confirmResult' = [confirmResult EXCEPT ![r] = "dropped"]
    /\ pc' = [pc EXCEPT ![r] = "send"]
    /\ calls' = Append(calls, [req |-> r, op |-> "submit"])
    /\ UNCHANGED <<kind, msg, holder, waiters, txs, chain, pending_tx,
                   sendResult, callResult, resp, returnedBefore>>
    /\ UNCHANGED procVars

\* Mutant of ConfirmDropped: the wait gives up on a pending transaction.
ConfirmDroppedOnTimeout(r) ==
    /\ pc[r] = "confirm"
    /\ txs[pending_tx[r]].st \in {"pending", "dropped"}
    /\ confirmResult' = [confirmResult EXCEPT ![r] = "dropped"]
    /\ Return(r, DroppedResponse)
    /\ UNCHANGED <<kind, msg, txs, chain, pending_tx, sendResult, callResult,
                   calls, returnedBefore>>
    /\ UNCHANGED procVars

\* pending_tx.await resolves Ok(None) (lines 107-115).
ConfirmDropped(r) ==
    /\ pc[r] = "confirm"
    /\ txs[pending_tx[r]].st = "dropped"
    /\ confirmResult' = [confirmResult EXCEPT ![r] = "dropped"]
    /\ Return(r, DroppedResponse)
    /\ UNCHANGED <<kind, msg, txs, chain, pending_tx, sendResult, callResult,
                   calls, returnedBefore>>
    /\ UNCHANGED procVars

\* Mutant of ConfirmError: the error leaves the handler unclassified.
ConfirmErrorPropagated(r) ==
    /\ pc[r] = "confirm"
    /\ confirmResult' = [confirmResult EXCEPT ![r] = "error"]
    /\ Return(r, NoResponse)
    /\ UNCHANGED <<kind, msg, txs, chain, pending_tx, sendResult, callResult,
                   calls, returnedBefore>>
    /\ UNCHANGED procVars

\* Mutant of ConfirmError: the error is answered only once the transaction
\* has left the pending pool.
ConfirmErrorAfterSettled(r) ==
    /\ pc[r] = "confirm"
    /\ txs[pending_tx[r]].st # "pending"
    /\ confirmResult' = [confirmResult EXCEPT ![r] = "error"]
    /\ Return(r, ConfirmFailedResponse("transport"))
    /\ UNCHANGED <<kind, msg, txs, chain, pending_tx, sendResult, callResult,
                   calls, returnedBefore>>
    /\ UNCHANGED procVars

\* pending_tx.await resolves Err(e) (lines 116-123): polling failed.
ConfirmError(r) ==
    /\ pc[r] = "confirm"
    /\ confirmResult' = [confirmResult EXCEPT ![r] = "error"]
    /\ Return(r, ConfirmFailedResponse("transport"))
    /\ UNCHANGED <<kind, msg, txs, chain, pending_tx, sendResult, callResult,
                   calls, returnedBefore>>
    /\ UNCHANGED procVars

\* get_messages().call().await resolves Ok(messages) (lines 153-156).
CallOk(r) ==
    /\ pc[r] = "call"
    /\ returnedBefore' = [returnedBefore EXCEPT ![r] = {w \in Reqs : pc[w] = "done"}]
    /\ callResult' = [callResult EXCEPT ![r] = "ok"]
    /\ Return(r, MessagesResponse(GetMessages))
    /\ UNCHANGED <<kind, msg, txs, chain, pending_tx, sendResult,
                   confirmResult, calls>>
    /\ UNCHANGED procVars

\* get_messages().call().await resolves Err(e) (lines 157-168).
CallFailed(r) ==
    /\ pc[r] = "call"
    /\ \E e \in CallErrors :
         /\ callResult' = [callResult EXCEPT ![r] = e]
         /\ Return(r, ReadErrorResponse(e))
    /\ returnedBefore' = [returnedBefore EXCEPT ![r] = {w \in Reqs : pc[w] = "done"}]
    /\ UNCHANGED <<kind, msg, txs, chain, pending_tx, sendResult,
                   confirmResult, calls>>
    /\ UNCHANGED procVars

\* Mutant of Index: the handler takes the shared state like the others.
IndexLocked(r) ==
    /\ Serving
    /\ pc[r] = "idle"
    /\ holder = NoReq
    /\ kind' = [kind EXCEPT ![r] = "index"]
    /\ resp' = [resp EXCEPT ![r] = IndexResponse]
    /\ pc' = [pc EXCEPT ![r] = "done"]
    /\ UNCHANGED <<msg, holder, waiters, txs, chain, pending_tx, sendResult,
                   confirmResult, callResult, calls, returnedBefore>>
    /\ UNCHANGED procVars

\* GET /: index answers at once, without the shared state (lines 74-76).
Index(r) ==
    /\ Serving
    /\ pc[r] = "idle"
    /\ kind' = [kind EXCEPT ![r] = "index"]
    /\ resp' = [resp EXCEPT ![r] = IndexResponse]
    /\ pc' = [pc EXCEPT ![r] = "done"]
    /\ UNCHANGED <<msg, holder, waiters, txs, chain, pending_tx, sendResult,
                   confirmResult, callResult, calls, returnedBefore>>
    /\ UNCHANGED procVars

-----------------------------------------------------------------------------
(* The listener task (subscribe_to_events, lines 43-65) *)

\* "unspawned"  before setup_contract spawned the task
\* "starting"   in ev.stream().await                        (line 47)
\* "listening"  in event_stream.next().await                (line 55)
\* "failed"     returned after the stream could not be opened (line 51)
\* "finished"   past the while loop: the task has ended
ListenerStates == {"unspawned", "starting", "listening", "failed", "finished"}

\* The task runs as long as the process does.
Alive == server \in {"deployed", "serving"}

\* line 50
StreamErrorLog ==
    [level |-> "error", message |-> "Failed to start event stream", sender |-> ""]

\* lines 56-60
EventLog(ev) ==
    [level |-> "info", message |-> ev.message, sender |-> ev.sender]

\* Mutant of ListenerOpenOk: the stream is opened through the Mutex.
ListenerOpenOkLocked ==
    /\ Alive
    /\ holder = NoReq
    /\ listener = "starting"
    /\ listener' = "listening"
    /\ UNCHANGED <<pc, kind, msg, holder, waiters, txs, chain, pending_tx,
                   sendResult, confirmResult, callResult, resp, calls,
                   returnedBefore, server, sessions, logged>>

\* ev.stream().await resolves Ok(stream): the task keeps stream.take(1)
\* (line 48) and goes on to wait for its first item.
ListenerOpenOk ==
    /\ Alive
    /\ listener = "starting"
    /\ listener' = "listening"
    /\ UNCHANGED <<pc, kind, msg, holder, waiters, txs, chain, pending_tx,
                   sendResult, confirmResult, callResult, resp, calls,
                   returnedBefore, server, sessions, logged>>

\* Mutant of ListenerOpenFailed: the error reaches main and ends the process.
ListenerOpenFailedFatal ==
    /\ Alive
    /\ listener = "starting"
    /\ listener' = "failed"
    /\ logged' = Append(logged, StreamErrorLog)
    /\ server' = "exited"
    /\ UNCHANGED <<pc, kind, msg, holder, waiters, txs, chain, pending_tx,
                   sendResult, confirmResult, callResult, resp, calls,
                   returnedBefore, sessions>>

\* ev.stream().await resolves Err(e): the error is logged and the task
\* returns (lines 49-52).
ListenerOpenFailed ==
    /\ Alive
    /\ listener = "starting"
    /\ listener' = "failed"
    /\ logged' = Append(logged, StreamErrorLog)
    /\ UNCHANGED <<pc, kind, msg, holder, waiters, txs, chain, pending_tx,
                   sendResult, confirmResult, callResult, resp, calls,
                   returnedBefore, server, sessions>>

\* Mutant of ListenerNext: the stream is not cut by take(1).
ListenerNextUnbounded ==
    /\ Alive
    /\ listener = "listening"
    /\ Len(logged) < Len(Events)
    /\ logged' = Append(logged, EventLog(Events[Len(logged) + 1]))
    /\ listener' = "listening"
    /\ UNCHANGED <<pc, kind, msg, holder, waiters, txs, chain, pending_tx,
                   sendResult, confirmResult, callResult, resp, calls,
                   returnedBefore, server, sessions>>

\* event_stream.next().await resolves with the first item of the stream,
\* the first event since block 0 (from_block(0), line 46).  Some(Ok(event))
\* is logged; the next poll of the take(1) stream yields None and the loop
\* ends.  Some(Err(_)), an item that does not decode, ends the loop at once.
ListenerNext ==
    /\ Alive
    /\ listener = "listening"
    /\ Events # <<>>
    /\ \E decoded \in BOOLEAN :
         logged' = IF decoded THEN Append(logged, EventLog(Events[1]))
                              ELSE logged
    /\ listener' = "finished"
    /\ UNCHANGED <<pc, kind, msg, holder, waiters, txs, chain, pending_tx,
                   sendResult, confirmResult, callResult, resp, calls,
                   returnedBefore, server, sessions>>

-----------------------------------------------------------------------------
(* The node *)

\* The node includes pending transaction h in a block; its execution
\* succeeds (receipt status 1) or reverts (receipt status 0).
Mine(h) ==
    /\ txs[h].st = "pending"
    /\ \E s \in BOOLEAN :
         txs' = [txs EXCEPT ![h].st = "included", ![h].ok = s]
    /\ chain' = Append(chain, h)
    /\ UNCHANGED <<pc, kind, msg, holder, waiters, pending_tx, sendResult,
                   confirmResult, callResult, resp, calls, returnedBefore>>
    /\ UNCHANGED procVars

\* The node drops pending transaction h from its pool for good.
Drop(h) ==
    /\ txs[h].st = "pending"
    /\ txs' = [txs EXCEPT ![h].st = "dropped"]
    /\ UNCHANGED <<pc, kind, msg, holder, waiters, chain, pending_tx,
                   sendResult, confirmResult, callResult, resp, calls,
                   returnedBefore>>
    /\ UNCHANGED procVars

-----------------------------------------------------------------------------

Handler(r) ==
    \/ Arrive(r)
    \/ Wake(r)
    \/ SendAccepted(r)
    \/ SendFailed(r)
    \/ ConfirmReceipt(r)
    \/ ConfirmDropped(r)
    \/ ConfirmError(r)
    \/ CallOk(r)
    \/ CallFailed(r)
    \/ Index(r)

MineTx == \E h \in 1..Len(txs) : Mine(h)

DropTx == \E h \in 1..Len(txs) : Drop(h)

Main ==
    \/ SetupOk
    \/ SetupFailed
    \/ ServerStart
    \/ ServerStartFailed

Listener ==
    \/ ListenerOpenOk
    \/ ListenerOpenFailed
    \/ ListenerNext

Next ==
    \/ Main
    \/ Listener
    \/ \E r \in Reqs : Handler(r)
    \/ MineTx
    \/ DropTx

Spec == Init /\ [][Next]_vars

\* Scheduling: main runs on; the runtime runs the listener task and a task
\* that was handed the Mutex; the node answers a submission, a read call and
\* a subscription; a confirmation wait resolves once the node reports the
\* transaction included or dropped.  Nothing makes a request arrive, the
\* node include or drop a transaction, or polling fail.
Fairness ==
    /\ WF_vars(SetupOk \/ SetupFailed)
    /\ WF_vars(ServerStart \/ ServerStartFailed)
    /\ WF_vars(ListenerOpenOk \/ ListenerOpenFailed)
    /\ WF_vars(ListenerNext)
    /\ \A r \in Reqs :
        /\ WF_vars(Wake(r))
        /\ WF_vars(SendAccepted(r) \/ SendFailed(r))
        /\ WF_vars(ConfirmReceipt(r))
        /\ WF_vars(ConfirmDropped(r))
        /\ WF_vars(CallOk(r) \/ CallFailed(r))

FairSpec == Spec /\ Fairness

-----------------------------------------------------------------------------
(* Vocabulary of the properties *)

Writes == {r \in Reqs : kind[r] = "write"}

Reads == {r \in Reqs : kind[r] = "read"}

Returned(r) == pc[r] = "done"

\* The handlers suspended inside a call on the contract session.
InCall == {r \in Reqs : pc[r] \in {"send", "confirm", "call"}}

\* The transactions the node holds for request r.
TxsOf(r) == {h \in 1..Len(txs) : txs[h].req = r}

\* The node's state of the transaction request r waits on, if any.
TxState(r) == IF pending_tx[r] = 0 THEN "none" ELSE txs[pending_tx[r]].st

\* The included transactions, as a set.
Included == {chain[i] : i \in 1..Len(chain)}

\* The transactions whose message is in the contract's array.
Stored == {h \in Included : txs[h].ok}

\* The elements of a sequence.
Range(s) == {s[i] : i \in 1..Len(s)}

\* How often request r issued contract call op.
CallCount(r, op) ==
    Cardinality({i \in 1..Len(calls) : calls[i].req = r /\ calls[i].op = op})

\* The documented response shape of POST /api/store-message a response has.
Shape(rs) ==
    CASE rs.code = 200 /\ rs.status = "success" -> "success"
      [] rs.code = 500 /\ rs.status = "error"
           /\ rs.message = "Transaction dropped" -> "dropped"
      [] rs.code = 400 /\ rs.status = "error" -> "rejected"
      [] rs.code = 500 /\ rs.status = "error"
           /\ rs.message # "Transaction dropped" -> "transport failure"
      [] OTHER -> "none"

-----------------------------------------------------------------------------
(* Properties *)

\* C1: at most one handler is inside a contract call (send, confirmation
\* wait, read call) at any time, and that handler holds the Mutex.
C1_Serialized ==
    /\ Cardinality(InCall) <= 1
    /\ \A r \in InCall : holder = r

\* C1 witness: one handler is inside a contract call while another request
\* has arrived and waits for the Mutex.
C1_Witness ==
    \E r \in InCall : \E q \in Reqs : q # r /\ pc[q] = "waiting"

\* C2: a write answered 200 "success" has exactly one transaction on the
\* node, that transaction is included in the chain, and the response carries
\* its hash.
C2_SuccessIsIncluded ==
    \A w \in Writes :
        (Returned(w) /\ Shape(resp[w]) = "success") =>
            /\ Cardinality(TxsOf(w)) = 1
            /\ \A h \in TxsOf(w) :
                 /\ txs[h].st = "included"
                 /\ h \in Included
                 /\ resp[w].tx_hash = h

\* C2 witness: a write returned 200 while another write's transaction is
\* on the node without being included.
C2_Witness ==
    \E w \in Writes : \E v \in Writes :
        /\ Returned(w) /\ resp[w].code = 200
        /\ v # w /\ \E h \in TxsOf(v) : txs[h].st # "included"

\* C3 (as claimed): a read that succeeds after a write returned 200 for m
\* returns a list containing m, and the transaction of a write answered
\* "dropped" or "rejected" never has its message stored.
C3_ReadReflectsCommitted ==
    /\ \A w \in Writes : \A q \in Reads :
         (/\ Returned(w) /\ resp[w].code = 200
          /\ Returned(q) /\ resp[q].code = 200
          /\ w \in returnedBefore[q])
            => msg[w] \in Range(resp[q].messages)
    /\ \A w \in Writes :
         (Returned(w) /\ Shape(resp[w]) \in {"dropped", "rejected"})
            => TxsOf(w) \cap Stored = {}

\* C4: every outcome of send() and of the confirmation wait is answered
\* with exactly one of the four documented responses, and a handler that
\* returned always returned a response.
C4_ClassificationComplete ==
    \A w \in Writes :
        Returned(w) =>
            /\ resp[w] # NoResponse
            /\ Shape(resp[w]) \in
                 {"success", "dropped", "rejected", "transport failure"}
            /\ sendResult[w] \in {"accepted"} \cup SendErrors
            /\ (sendResult[w] = "accepted") =>
                 confirmResult[w] \in {"receipt", "dropped", "error"}
            /\ (sendResult[w] = "accepted" /\ confirmResult[w] = "receipt")
                 <=> Shape(resp[w]) = "success"
            /\ (sendResult[w] = "accepted" /\ confirmResult[w] = "dropped")
                 <=> Shape(resp[w]) = "dropped"
            /\ (sendResult[w] = "revert")
                 <=> Shape(resp[w]) = "rejected"
            /\ (\/ sendResult[w] = "accepted" /\ confirmResult[w] = "error"
                \/ sendResult[w] \in {"rejected", "transport"})
                 <=> Shape(resp[w]) = "transport failure"

\* C4 witness: two writes returned with different documented responses, one
\* of them after a failed confirmation wait.
C4_Witness ==
    \E w \in Writes : \E v \in Writes :
        /\ Returned(w) /\ Returned(v)
        /\ confirmResult[w] = "error"
        /\ Shape(resp[v]) # Shape(resp[w])

\* C5 (as claimed): a write whose contract execution failed, before
\* submission or in the block that included it, is answered 400 and never
\* 200; a read whose contract execution reverted is answered 500.
C5_ExecutionFailureIsRejected ==
    /\ \A w \in Writes :
         Returned(w) =>
            /\ (sendResult[w] = "revert") => resp[w].code = 400
            /\ (confirmResult[w] = "receipt" /\ ~txs[pending_tx[w]].ok)
                 => resp[w].code = 400
            /\ (resp[w].code = 200) => TxsOf(w) \cap Stored # {}
    /\ \A q \in Reads :
         (Returned(q) /\ callResult[q] = "revert") => resp[q].code = 500

\* C6 (as claimed): a submission the node refused is answered 400 with the
\* refusal, and a failed submission is answered 500 only for a transport
\* failure.
C6_RefusalIs400 ==
    \A w \in Writes :
        (Returned(w) /\ sendResult[w] \in SendErrors) =>
            /\ (sendResult[w] \in {"revert", "rejected"}) =>
                 (resp[w].code = 400 /\ resp[w].detail = sendResult[w])
            /\ (resp[w].code = 500) => sendResult[w] = "transport"

\* C6 (amended): a failed submission is answered 400 exactly when the error
\* is a contract revert; every other failure, a refusal by the node as well
\* as a transport failure, is answered 500 "Failed to send transaction"
\* with the error as detail.
C6_RevertIs400 ==
    \A w \in Writes :
        (Returned(w) /\ sendResult[w] \in SendErrors) =>
            /\ (resp[w].code = 400) <=> (sendResult[w] = "revert")
            /\ (sendResult[w] = "revert") =>
                 /\ resp[w].message = "Contract execution failed: "
                 /\ resp[w].detail = "revert"
            /\ (sendResult[w] \in {"rejected", "transport"}) =>
                 /\ resp[w].code = 500
                 /\ resp[w].message = "Failed to send transaction: "
                 /\ resp[w].detail = sendResult[w]

\* C6 witness: one write was refused by the node and another reverted, and
\* both have been answered.
C6_Witness ==
    \E w \in Writes : \E v \in Writes :
        /\ Returned(w) /\ sendResult[w] = "rejected"
        /\ Returned(v) /\ sendResult[v] = "revert"

\* C7 (as claimed): a write whose transaction was pooled and is never
\* included is eventually answered 500 "Transaction dropped" (unless
\* polling itself fails).
C7_EventuallyDropped ==
    \A w \in Reqs :
        (pc[w] = "confirm") ~>
            \/ TxState(w) = "included"
            \/ confirmResult[w] = "error"
            \/ (Returned(w) /\ resp[w] = DroppedResponse)

\* C8: a write request issues exactly one submission once it holds the
\* Mutex and at most one confirmation wait, none when the submission
\* failed; a read request issues neither.
C8_SubmitOnce ==
    /\ \A w \in Writes :
         /\ CallCount(w, "submit") =
              (IF pc[w] \in {"send", "confirm", "done"} THEN 1 ELSE 0)
         /\ CallCount(w, "awaitConfirmation") =
              (IF sendResult[w] = "accepted" THEN 1 ELSE 0)
         /\ Cardinality(TxsOf(w)) <= 1
    /\ \A q \in Reqs \ Writes :
         /\ CallCount(q, "submit") = 0
         /\ CallCount(q, "awaitConfirmation") = 0
         /\ TxsOf(q) = {}

\* C8 witness: a write answered "dropped" and a write whose submission
\* failed have both returned.
C8_Witness ==
    \E w \in Writes : \E v \in Writes :
        /\ Returned(w) /\ confirmResult[w] = "dropped"
        /\ Returned(v) /\ sendResult[v] \in SendErrors

\* C9 (as claimed): a handler waiting for the Mutex eventually holds it.
C9_EventuallyAcquires ==
    \A r \in Reqs : (pc[r] = "waiting") ~> (holder = r)

\* C10: a handler that returned does not hold the Mutex, a handler past
\* the lock holds it until it returns, and the Mutex is held only by a
\* handler that arrived and has not returned.
C10_GuardReleased ==
    /\ \A r \in Reqs : Returned(r) => holder # r
    /\ \A r \in InCall : holder = r
    /\ holder # NoReq =>
         pc[holder] \in {"waiting", "send", "confirm", "call"}
    /\ (holder = NoReq) => waiters = <<>>

\* C10 witness: handlers returned on a success path and on a failure path
\* and the Mutex is unlocked.
C10_Witness ==
    /\ holder = NoReq
    /\ \E r \in Writes \cup Reads : Returned(r) /\ resp[r].code = 200
    /\ \E r \in Writes \cup Reads : Returned(r) /\ resp[r].code \in {400, 500}

-----------------------------------------------------------------------------
(* Vocabulary of the properties on reads, ordering and the listener *)

\* The variables of the request handlers, the Mutex and the ledger.
serviceVars == <<pc, kind, msg, holder, waiters, txs, chain, pending_tx,
                 sendResult, confirmResult, callResult, resp, calls,
                 returnedBefore>>

\* How often x occurs in sequence s.
Occurrences(s, x) == Cardinality({i \in 1..Len(s) : s[i] = x})

\* The place of request r's submission among the contract calls issued,
\* 0 when r has not submitted: the order in which writes took the Mutex.
SubmitPos(r) ==
    IF \E i \in 1..Len(calls) : calls[i].req = r /\ calls[i].op = "submit"
    THEN CHOOSE i \in 1..Len(calls) : calls[i].req = r /\ calls[i].op = "submit"
    ELSE 0

\* The place of transaction h in the chain, 0 when it is not included.
ChainPos(h) ==
    IF h \in Included THEN CHOOSE i \in 1..Len(chain) : chain[i] = h ELSE 0

\* Read q succeeded after requests w and v had both been answered.
ReadAfter(q, w, v) ==
    /\ q \in Reads /\ Returned(q) /\ resp[q].code = 200
    /\ {w, v} \subseteq returnedBefore[q]

\* Write w was answered 200 "success".
Succeeded(w) == w \in Writes /\ Returned(w) /\ Shape(resp[w]) = "success"

\* The event entries the listener has logged.
EventLogs == SelectSeq(logged, LAMBDA l : l.level = "info")

-----------------------------------------------------------------------------
(* Properties, continued *)

\* C11: the step that ends a read call leaves the ledger unchanged and
\* answers 200 with exactly the contract's message array when the call
\* succeeded, 500 with the error and no message list when it failed.
C11_ReadPassesThrough ==
    [][\A q \in Reqs :
         (pc[q] = "call" /\ pc'[q] # "call") =>
            /\ pc'[q] = "done"
            /\ txs' = txs /\ chain' = chain
            /\ callResult'[q] \in {"ok"} \cup CallErrors
            /\ (callResult'[q] = "ok") =>
                 /\ resp'[q].code = 200
                 /\ resp'[q].messages = GetMessages
            /\ (callResult'[q] \in CallErrors) =>
                 /\ resp'[q].code = 500
                 /\ resp'[q].status = "error"
                 /\ resp'[q].message # ""
                 /\ resp'[q].detail = callResult'[q]
                 /\ resp'[q].messages = <<>>]_vars

\* C11 witness: a read returned two different messages in the order the
\* ledger included them (the later submitted one first).
C11_Witness ==
    \E q \in Reads :
        /\ Returned(q) /\ resp[q].code = 200
        /\ Len(resp[q].messages) = 2
        /\ resp[q].messages[1] # resp[q].messages[2]
        /\ Len(chain) = 2 /\ chain[1] > chain[2]

\* C12: when the stream cannot be opened the listener logs the error once
\* and ends for good; that step changes nothing of main, the handlers, the
\* Mutex or the ledger, and with the listener ended every handler step is
\* enabled as it is otherwise.
C12_ListenerFailureIsLocal ==
    /\ [](listener = "failed" =>
            /\ logged = <<StreamErrorLog>>
            /\ sessions = 1
            /\ (server = "deployed" => ENABLED ServerStart)
            /\ \A r \in Reqs :
                 /\ (Serving /\ pc[r] = "idle") => ENABLED Arrive(r)
                 /\ (pc[r] = "send") => ENABLED SendAccepted(r)
                 /\ (pc[r] = "confirm" /\ TxState(r) = "included")
                      => ENABLED ConfirmReceipt(r)
                 /\ (pc[r] = "call") => ENABLED CallOk(r))
    /\ [][(listener # "failed" /\ listener' = "failed") =>
            /\ listener = "starting"
            /\ logged' = Append(logged, StreamErrorLog)
            /\ server' = server /\ sessions' = sessions
            /\ serviceVars' = serviceVars]_vars
    /\ [][(listener = "failed") =>
            (listener' = "failed" /\ logged' = logged)]_vars

\* C12 witness: the listener failed and a write and a read were answered 200.
C12_Witness ==
    /\ listener = "failed"
    /\ \E w \in Writes : Succeeded(w)
    /\ \E q \in Reads : Returned(q) /\ resp[q].code = 200
                          /\ resp[q].messages # <<>>

\* C13: the listener enters "listening" only from "starting", which it
\* enters only when spawned; it logs at most one event, the first the
\* contract emitted; once the stream gave its first item the task has ended
\* and logs nothing more.
C13_ListenerTakesOne ==
    /\ [](/\ listener \in ListenerStates
          /\ Len(EventLogs) <= 1
          /\ (EventLogs # <<>>) =>
               /\ listener = "finished"
               /\ Events # <<>>
               /\ EventLogs[1] = EventLog(Events[1])
          /\ (listener = "finished") => Events # <<>>)
    /\ [][/\ (listener' = "listening" /\ listener # "listening")
               => listener = "starting"
          /\ (listener' = "starting" /\ listener # "starting")
               => (listener = "unspawned" /\ server = "setup")
          /\ (listener = "finished")
               => (listener' = "finished" /\ logged' = logged)]_vars

\* C13 witness: the listener has ended with one event logged while the
\* contract has emitted two.
C13_Witness ==
    /\ listener = "finished"
    /\ Len(EventLogs) = 1
    /\ Len(Events) = 2

\* C14: no handler has run unless setup succeeded and the server started;
\* a process that exited stays exited; the session is created at most once,
\* by setup, and exists whenever the server is up.
C14_StartupFatal ==
    /\ [](/\ (server # "serving") =>
               \A r \in Reqs : pc[r] = "idle" /\ resp[r] = NoResponse
          /\ sessions <= 1
          /\ (server \in {"deployed", "serving"}) => sessions = 1
          /\ (server = "setup") => (sessions = 0 /\ listener = "unspawned")
          /\ (sessions = 0) => listener = "unspawned")
    /\ [][/\ (server = "exited") => (server' = "exited" /\ vars' = vars)
          /\ (sessions' # sessions) => server = "setup"
          /\ (server = "serving") => server' = "serving"]_vars

\* C14 witness: setup failed and the process has exited without a session.
C14_Witness ==
    /\ server = "exited"
    /\ sessions = 0

\* C15 (as claimed): two writes of the same text that both returned 200
\* have distinct transaction hashes, and a read that succeeds after both
\* contains the text at least twice.
C15_NotDeduplicated ==
    \A w \in Writes : \A v \in Writes \ {w} :
        (Succeeded(w) /\ Succeeded(v) /\ msg[w] = msg[v]) =>
            /\ resp[w].tx_hash # resp[v].tx_hash
            /\ \A q \in Reads :
                 ReadAfter(q, w, v) =>
                    Occurrences(resp[q].messages, msg[w]) >= 2

\* C16 (as claimed): a read that succeeds after two writes "a" and "b" both
\* returned 200 contains both messages; when no other write was stored the
\* list is one of the two orders of the two messages.
C16_BothOrdersOnly ==
    \A w \in Writes : \A v \in Writes \ {w} :
        (Succeeded(w) /\ Succeeded(v) /\ msg[w] = "a" /\ msg[v] = "b") =>
            \A q \in Reads :
                ReadAfter(q, w, v) =>
                    /\ {"a", "b"} \subseteq Range(resp[q].messages)
                    /\ (Cardinality(Writes) = 2) =>
                         resp[q].messages \in {<<"a", "b">>, <<"b", "a">>}

C18_IndexIsFree ==
    /\ [](\A r \in Reqs :
            /\ (Serving /\ pc[r] = "idle") => ENABLED Index(r)
            /\ (kind[r] = "index") =>
                 /\ Returned(r) /\ resp[r] = IndexResponse
                 /\ resp[r].code = 200
                 /\ holder # r
                 /\ CallCount(r, "submit") + CallCount(r, "read")
                      + CallCount(r, "awaitConfirmation") = 0)
    /\ [][\A r \in Reqs :
            (kind'[r] = "index" /\ kind[r] # "index") =>
               /\ pc'[r] = "done" /\ resp'[r].code = 200
               /\ UNCHANGED <<holder, waiters, txs, chain, calls>>]_vars

\* C18 witness: GET / was answered 200 and a write holds the Mutex in its
\* confirmation wait with another request queued behind it.
C18_Witness ==
    /\ \E r \in Reqs : kind[r] = "index" /\ resp[r].code = 200
    /\ \E w \in Writes : pc[w] = "confirm" /\ holder = w /\ waiters # <<>>

\* C19: the listener's steps are enabled whoever holds the Mutex and leave
\* the Mutex, its queue, the handlers and their contract calls unchanged;
\* handler steps are enabled whatever the listener does.
C19_ListenerOutsideGuard ==
    /\ [](/\ (Alive /\ listener = "starting") =>
               (ENABLED ListenerOpenOk /\ ENABLED ListenerOpenFailed)
          /\ (Alive /\ listener = "listening" /\ Events # <<>>) =>
               ENABLED ListenerNext
          /\ \A r \in Reqs :
               /\ (pc[r] = "send") => ENABLED SendAccepted(r)
               /\ (pc[r] = "call") => ENABLED CallOk(r)
               /\ (pc[r] = "waiting" /\ holder = r) => ENABLED Wake(r))
    /\ [][(listener' # listener \/ logged' # logged) =>
            UNCHANGED <<holder, waiters, pc, calls, resp, txs, chain>>]_vars

\* C19 witness: the listener is in its stream poll with an event to take
\* while a handler is in a contract call holding the Mutex.
C19_Witness ==
    /\ listener = "listening"
    /\ Events # <<>>
    /\ \E r \in InCall : holder = r

\* C20: of two writes, when the one that took the Mutex first returned 200,
\* its transaction was included before the other one's was submitted, so it
\* precedes the other in the chain; a read after both that holds both
\* (different) messages once holds them in that order.
C20_GuardOrderIsLedgerOrder ==
    \A w \in Writes : \A v \in Writes \ {w} :
        (/\ SubmitPos(w) > 0 /\ SubmitPos(v) > 0
         /\ SubmitPos(w) < SubmitPos(v)
         /\ Succeeded(w)) =>
            /\ TxsOf(w) \subseteq Included
            /\ \A h \in TxsOf(w) : \A g \in TxsOf(v) :
                 /\ h < g
                 /\ g \in Included => ChainPos(h) < ChainPos(g)
            /\ \A q \in Reads :
                 (/\ ReadAfter(q, w, v) /\ Succeeded(v)
                  /\ msg[w] # msg[v]
                  /\ Occurrences(resp[q].messages, msg[w]) = 1
                  /\ Occurrences(resp[q].messages, msg[v]) = 1) =>
                    \E i \in 1..Len(resp[q].messages) :
                    \E j \in 1..Len(resp[q].messages) :
                        /\ i < j
                        /\ resp[q].messages[i] = msg[w]
                        /\ resp[q].messages[j] = msg[v]

\* C20 witness: two writes of different messages returned 200 and a later
\* read returned both, the first submitted first.
C20_Witness ==
    \E w \in Writes : \E v \in Writes \ {w} : \E q \in Reads :
        /\ Succeeded(w) /\ Succeeded(v)
        /\ SubmitPos(w) < SubmitPos(v)
        /\ ReadAfter(q, w, v)
        /\ resp[q].messages = <<msg[w], msg[v]>>
        /\ msg[w] # msg[v]

====
